---- MODULE Spec2Model ----
(***************************************************************************)
(* A model of swcmorphologyparser: SwcParser.parse, SwcParser.extractPoints *)
(* TreeNode and TreeNodeCollection, as the bundled build runs them.         *)
(*                                                                         *)
(* A JavaScript value that may be null is modelled as a sequence of length *)
(* 0 (null) or 1 (the value).  A TreeNode object is identified by the      *)
(* index of the point it was built from (objects of replaced ids stay      *)
(* alive as long as something refers to them).                             *)
(***************************************************************************)
EXTENDS Integers, Sequences, FiniteSets, TLC

\* ---------------------------------------------------------------- bounds
\* number of lines of the input text
MaxLines == 3
\* point ids and parent ids are drawn from 1..MaxId
MaxId == 3
\* radii are drawn from 1..MaxRadius
MaxRadius == 2

\* ------------------------------------------------------- program constants
SOMA == 1
AXON == 2
BASAL_DENDRITE == 3
\* the parent id of a point without parent
NoParentId == -1
\* a row needs at least that many tokens to become a point
MinTokens == 7

null == << >>
Some(v) == << v >>
Val(o) == o[1]

Types == {SOMA, AXON, BASAL_DENDRITE}
Ids == 1..MaxId
Radii == 1..MaxRadius
ParentIds == {NoParentId} \cup Ids

Max(S) == CHOOSE m \in S : \A k \in S : k <= m

\* the number NaN: no number of the texts is that small
NaN == -1000000
\* a === b, for numbers
StrictEq(a, b) == a = b /\ a # NaN
\* Math.max(...S)
MathMax(S) == IF NaN \in S THEN NaN ELSE Max(S)

\* ------------------------------------------------------------ input text
\* A token is a number written without decimal point ("2", "-1"), a number
\* written with one decimal digit ("2.0", "2.5", "-1.0"), or a word that
\* starts with no digit ("abc").
Tok(n) == [word |-> FALSE, neg |-> n < 0, int |-> IF n < 0 THEN 0 - n ELSE n,
           frac |-> null]
Dec(n, d) == [Tok(n) EXCEPT !.frac = Some(d)]
Word == [word |-> TRUE, neg |-> FALSE, int |-> 0, frac |-> null]
\* parseFloat of a token: the number, in tenths, or NaN
ParseFloat(tok) ==
    IF tok.word THEN NaN
    ELSE LET m == 10 * tok.int + (IF tok.frac = null THEN 0 ELSE Val(tok.frac))
         IN  IF tok.neg THEN 0 - m ELSE m
\* Math.round that leaves the decimal digit out
MathRound_Floor(v) == IF v = NaN THEN NaN ELSE v \div 10
\* Math.round of a number given in tenths: the nearest integer, halves up
MathRound(v) == IF v = NaN THEN NaN ELSE (v + 5) \div 10

\* A line of the text is a data line of MinTokens tokens, a line of fewer
\* tokens, a blank line or a comment line.  The x token of a line is its
\* line number (set by TextOf), so that a position tells which line a point
\* comes from; the y and z tokens are 0.  The radius token is drawn from
\* Radii on the soma lines, whose radii the soma is built from, and is 1 on
\* the other lines.
RadiiOfType(t) == IF t = SOMA THEN Radii ELSE {1}
DataLines == UNION {[kind : {"data"}, id : {Tok(i) : i \in Ids}, type : {Tok(t)},
                     radius : {Tok(r) : r \in RadiiOfType(t)},
                     parentId : {Tok(p) : p \in ParentIds}] : t \in Types}
OtherLine(k) == [kind |-> k, id |-> Tok(0), type |-> Tok(0), radius |-> Tok(0),
                 parentId |-> Tok(0)]
ShortLine == OtherLine("short")
BlankLine == OtherLine("blank")
CommentLine == OtherLine("comment")
LineChoices == DataLines \cup {ShortLine, BlankLine, CommentLine}

\* the number of tokens the row split of a line yields
ShortTokens == 5
RowLength(line) == CASE line.kind = "data" -> MinTokens
                     [] line.kind = "short" -> ShortTokens
                     [] OTHER -> 1

TextOf(f) == [i \in DOMAIN f |->
                [kind |-> f[i].kind, id |-> f[i].id, type |-> f[i].type, x |-> Tok(i),
                 y |-> Tok(0), z |-> Tok(0), radius |-> f[i].radius,
                 parentId |-> f[i].parentId]]

\* ---------------------------------------------------------- extractPoints
\* the elements of s whose index is in K and at least i, in order: a loop
\* over s, or Array.prototype.filter
RECURSIVE Pick(_, _, _)
Pick(s, K, i) == IF i > Len(s) THEN << >>
                 ELSE (IF i \in K THEN << s[i] >> ELSE << >>) \o Pick(s, K, i + 1)

IsBlank(l) == l.kind = "blank"

\* swcStr.replace(/\s*#.*?$/mg, ''): a comment goes with the white space
\* before it, the line break and the blank lines before it included
EatenByComment(s, i) ==
    /\ IsBlank(s[i])
    /\ \E j \in (i + 1)..Len(s) :
          s[j].kind = "comment" /\ \A k \in i..(j - 1) : IsBlank(s[k])
RemoveComments(s) ==
    Pick(s, {i \in 1..Len(s) : s[i].kind # "comment" /\ ~EatenByComment(s, i)}, 1)

\* result.trim(): the blank lines before the first and after the last line
Trim(s) ==
    Pick(s, {i \in 1..Len(s) : /\ \E j \in 1..i : ~IsBlank(s[j])
                               /\ \E j \in i..Len(s) : ~IsBlank(s[j])}, 1)

\* .replace(/^\s*$/mg, ''): of a run of blank lines one empty line is left
RemoveEmptyLines(s) ==
    Pick(s, {i \in 1..Len(s) : ~(IsBlank(s[i]) /\ i < Len(s) /\ IsBlank(s[i + 1]))}, 1)

\* result.split('\n'): an empty result is one empty line
SplitLines(s) == IF s = << >> THEN << BlankLine >> ELSE s

\* the point of a row of at least MinTokens tokens
PointOf(row) == [id |-> MathRound(ParseFloat(row.id)),
                 type |-> MathRound(ParseFloat(row.type)),
                 x |-> ParseFloat(row.x),
                 y |-> ParseFloat(row.y),
                 z |-> ParseFloat(row.z),
                 radius |-> ParseFloat(row.radius),
                 parentId |-> MathRound(ParseFloat(row.parentId))]

\* swcPoints[i] is assigned for the rows of at least MinTokens tokens only:
\* the array is as long as its last assigned index and has a hole (null)
\* at every index before it that was not assigned
extractPoints(swcStr) ==
    LET lines == SplitLines(RemoveEmptyLines(Trim(RemoveComments(swcStr))))
        kept == {i \in 1..Len(lines) : RowLength(lines[i]) >= MinTokens}
        length == IF kept = {} THEN 0 ELSE Max(kept)
    IN  [i \in 1..length |-> IF i \in kept THEN Some(PointOf(lines[i])) ELSE null]

\* ---------------------------------------------------------------- TreeNode
\* new TreeNode(id, type, x, y, z, r)
TreeNode(id, type, x, y, z, r) ==
    [_id |-> id, _type |-> type, _position |-> << x, y, z >>, _radius |-> r,
     _parent |-> null, _parentId |-> null, _children |-> << >>]

isSoma(n) == n._type = SOMA

\* n.doesAlreadyHaveChild(c), for the objects n and c of the heap h
doesAlreadyHaveChild(h, n, c) ==
    \E i \in 1..Len(h[n]._children) : StrictEq(h[h[n]._children[i]]._id, h[c]._id)

\* p._addChild(c): the heap after it
_addChild(h, p, c) ==
    IF ~doesAlreadyHaveChild(h, p, c)
    THEN [h EXCEPT ![p]._children = Append(@, c)]
    ELSE h

\* c.setParent(p), p an object: the heap after it
setParent(h, c, p) == _addChild([h EXCEPT ![c]._parent = Some(p)], p, c)

\* dive going on whatever the type of the only child is
RECURSIVE dive_AnyType(_, _, _)
dive_AnyType(h, n, nodeList) ==
    LET list == Append(nodeList, n)
        children == h[n]._children
    IN  IF Len(children) = 1
        THEN dive_AnyType(h, children[1], list)
        ELSE [nodeList |-> list, children |-> children]

\* dive stopping at its first node
dive_NoDescent(h, n, nodeList) ==
    [nodeList |-> Append(nodeList, n), children |-> h[n]._children]

\* n.dive(nodeList): the node list after it and the array it returns
RECURSIVE dive(_, _, _)
dive(h, n, nodeList) ==
    LET list == Append(nodeList, n)
        children == h[n]._children
    IN  IF Len(children) = 1 /\ StrictEq(h[children[1]]._type, h[n]._type)
        THEN dive(h, children[1], list)
        ELSE [nodeList |-> list, children |-> children]

\* ------------------------------------------------------ TreeNodeCollection
RECURSIVE Ascending(_)
Ascending(S) == IF S = {} THEN << >>
                ELSE LET m == CHOOSE k \in S : \A j \in S : k <= j
                     IN  << m >> \o Ascending(S \ {m})
\* the key is an array index: the string of a non-negative integer
IsArrayIndex(k) == k >= 0
\* the index of the first object created with the id: the key of the id is
\* created when that object is assigned to it
KeyCreation(h, id) == CHOOSE i \in DOMAIN h :
                         /\ h[i]._id = id
                         /\ \A j \in 1..(i - 1) : h[j]._id # id
\* the keys of the mapping, all visited in the order of their creation
ObjectKeys_CreationOrder(h, nodes) ==
    LET creations == Ascending({KeyCreation(h, k) : k \in DOMAIN nodes})
    IN  [i \in 1..Len(creations) |-> h[creations[i]]._id]
\* The keys of an object, in the order Object.values visits them: the keys
\* that are array indices, ascending, then the other keys ("-2", "NaN") in
\* the order of their creation.
ObjectKeys(h, nodes) ==
    LET others == Ascending({KeyCreation(h, k) : k \in {d \in DOMAIN nodes : ~IsArrayIndex(d)}})
    IN  Ascending({k \in DOMAIN nodes : IsArrayIndex(k)})
           \o [i \in 1..Len(others) |-> h[others[i]]._id]
\* Object.values(nodes): the objects of the mapping, the heap being h
ObjectValues(h, nodes) == LET keys == ObjectKeys(h, nodes)
                          IN  [i \in 1..Len(keys) |-> nodes[keys[i]]]

\* the first loop of _initCollection reads points[i][0]: it throws at a hole
HasHole(points) == \E i \in 1..Len(points) : points[i] = null

\* the objects the first loop of _initCollection creates, one per point
CreatedNodes(points) ==
    [i \in 1..Len(points) |->
        LET pt == Val(points[i])
            aNode == TreeNode(pt.id, pt.type, pt.x, pt.y, pt.z, pt.radius)
        IN  IF pt.parentId = NoParentId THEN aNode
            ELSE [aNode EXCEPT !._parentId = Some(pt.parentId)]]

\* the mapping keeping the first object assigned to each id
NodesById_FirstWins(points) ==
    [id \in {Val(points[i]).id : i \in 1..Len(points)} |->
        CHOOSE i \in 1..Len(points) :
            /\ Val(points[i]).id = id
            /\ \A j \in 1..(i - 1) : Val(points[j]).id # id]

\* this._nodes after the first loop: the last object assigned to each id
NodesById(points) ==
    [id \in {Val(points[i]).id : i \in 1..Len(points)} |->
        Max({i \in 1..Len(points) : Val(points[i]).id = id})]

\* somaNodes after the first loop
SomaNodes(points) ==
    Pick([i \in 1..Len(points) |-> i],
         {i \in 1..Len(points) : Val(points[i]).type = SOMA}, 1)

\* the second pass of _initCollection reaches a node of the mapping whose
\* parent id is no key of the mapping: setParent(undefined) throws
HasDanglingParent(h, nodes) ==
    \E id \in DOMAIN nodes :
        /\ h[nodes[id]]._parentId # null
        /\ Val(h[nodes[id]]._parentId) \notin DOMAIN nodes

\* the second pass of _initCollection over the objects vals[i..]
RECURSIVE LinkParents(_, _, _, _)
LinkParents(h, nodes, vals, i) ==
    IF i > Len(vals) THEN h
    ELSE LET n == vals[i]
             parentId == h[n]._parentId
         IN  IF parentId = null THEN LinkParents(h, nodes, vals, i + 1)
             ELSE LinkParents(setParent(h, n, nodes[Val(parentId)]), nodes, vals, i + 1)

\* the soma with the radius of its first node
RawSoma_FirstRadius(h, somaNodes) ==
    IF Len(somaNodes) > 0
    THEN Some([id |-> 0, type |-> "soma",
               radius |-> h[somaNodes[1]]._radius,
               points |-> [i \in 1..Len(somaNodes) |->
                              [position |-> h[somaNodes[i]]._position]]])
    ELSE null

\* this._rawSoma at the end of _initCollection
RawSoma(h, somaNodes) ==
    IF Len(somaNodes) > 0
    THEN Some([id |-> 0, type |-> "soma",
               radius |-> MathMax({h[somaNodes[i]]._radius : i \in 1..Len(somaNodes)}),
               points |-> [i \in 1..Len(somaNodes) |->
                              [position |-> h[somaNodes[i]]._position]]])
    ELSE null

\* ------------------------------------------------------------------ state
VARIABLES
    pc,                 \* where the call of parse is: "done" when it returned,
                        \* "collectionThrew" when the constructor of the collection
                        \* threw, "climbThrew" when the loop after it threw
    swcStr,             \* the argument of parse
    rawPoints,          \* parse: rawPoints
    heap,               \* the TreeNode objects, by the index of their point
    _nodes,             \* TreeNodeCollection._nodes: id -> object
    somaNodes,          \* _initCollection: somaNodes
    _rawSoma,           \* TreeNodeCollection._rawSoma
    _rawSections,       \* TreeNodeCollection._rawSections
    currentSectionId,   \* _buildSections: currentSectionId
    sections,           \* _buildSections: sections
    stack,              \* _buildSections: stack
    collRawMorphology,  \* TreeNodeCollection._rawMorphology
    collMorphology,     \* TreeNodeCollection._morphology
    _rawMorphology,     \* SwcParser._rawMorphology
    _morphology,        \* SwcParser._morphology
    aType2Node,         \* parse: aType2Node (null: undefined)
    aSection,           \* a Section object (null: none constructed yet)
    sectionCall         \* the last call on it: its method, its argument and
                        \* whether it threw

collVars == << heap, _nodes, somaNodes, _rawSoma, _rawSections, collRawMorphology,
               collMorphology >>
buildVars == << currentSectionId, sections, stack >>
parserVars == << _rawMorphology, _morphology >>
sectionVars == << aSection, sectionCall >>
vars == << pc, swcStr, rawPoints, collVars, buildVars, parserVars, aType2Node,
           sectionVars >>

\* new SwcParser()
Init ==
    /\ pc = "idle"
    /\ swcStr = << >>
    /\ rawPoints = << >>
    /\ heap = << >>
    /\ _nodes = << >>
    /\ somaNodes = << >>
    /\ _rawSoma = null
    /\ _rawSections = null
    /\ currentSectionId = 0
    /\ sections = << >>
    /\ stack = << >>
    /\ collRawMorphology = null
    /\ collMorphology = null
    /\ _rawMorphology = null
    /\ _morphology = null
    /\ aType2Node = null
    /\ aSection = null
    /\ sectionCall = [method |-> "none", arg |-> null, threw |-> FALSE]

\* parse(swcStr), called when no call is running, up to
\* new TreeNodeCollection(rawPoints): the constructor of the collection sets
\* its fields
Parse(str) ==
    /\ swcStr' = str
    /\ _morphology' = null
    /\ _rawMorphology' = null
    /\ rawPoints' = extractPoints(str)
    /\ heap' = << >>
    /\ _nodes' = << >>
    /\ somaNodes' = << >>
    /\ _rawSoma' = null
    /\ _rawSections' = null
    /\ collRawMorphology' = null
    /\ collMorphology' = null
    /\ pc' = "initCollection"
    /\ UNCHANGED << buildVars, aType2Node, sectionVars >>

\* _initCollection(points) returns
InitCollection ==
    /\ pc = "initCollection"
    /\ ~HasHole(rawPoints)
    /\ LET created == CreatedNodes(rawPoints)
           nodes == NodesById(rawPoints)
       IN  /\ ~HasDanglingParent(created, nodes)
           /\ heap' = LinkParents(created, nodes, ObjectValues(created, nodes), 1)
           /\ _nodes' = nodes
           /\ somaNodes' = SomaNodes(rawPoints)
           /\ _rawSoma' = RawSoma(created, SomaNodes(rawPoints))
    /\ pc' = "buildSections"
    /\ UNCHANGED << swcStr, rawPoints, _rawSections, collRawMorphology, collMorphology,
                    buildVars, parserVars, aType2Node, sectionVars >>

\* _initCollection(points) throws a TypeError: the constructor and parse
\* throw it on
InitCollectionThrows ==
    /\ pc = "initCollection"
    /\ IF HasHole(rawPoints) THEN TRUE
       ELSE HasDanglingParent(CreatedNodes(rawPoints), NodesById(rawPoints))
    /\ pc' = "collectionThrew"
    /\ UNCHANGED << swcStr, rawPoints, collVars, buildVars, parserVars, aType2Node, sectionVars >>

\* let currentSectionId, left as the call before it ended
FirstSectionId_Carried == currentSectionId

\* let currentSectionId = 0
FirstSectionId == 0

\* _buildSections, called at one of the places from, up to the loop that
\* pops the stack, which goes on at the place to
StartSections(from, to) ==
    /\ pc \in from
    /\ currentSectionId' = FirstSectionId
    /\ sections' = << >>
    /\ LET values == ObjectValues(heap, _nodes)
           starterNodes ==
               Pick(values, {i \in 1..Len(values) : heap[values[i]]._parent = null}, 1)
       IN  stack' = [i \in 1..Len(starterNodes) |->
                        [node |-> starterNodes[i], parentSectionId |-> null]]
    /\ pc' = to
    /\ UNCHANGED << swcStr, rawPoints, collVars, parserVars, aType2Node, sectionVars >>

\* _buildSections, called by the constructor of the collection
BuildSectionsStart == StartSections({"buildSections"}, "popping")

\* the node list without the parent of the starting node
InitialNodeList_NoParent(h, startingNode) == << >>

\* buildRawSection: nodeList before the dive, the parent of the starting
\* node when it has one
InitialNodeList(h, startingNode) ==
    IF h[startingNode]._parent # null
    THEN << Val(h[startingNode]._parent) >>
    ELSE << >>

\* buildRawSection that does not add the section to the children of its
\* parent
buildRawSection_NoLink(h, secs, stk, id, startingNode, parentSectionId) ==
    LET dived == dive(h, startingNode, InitialNodeList(h, startingNode))
        nodeList == dived.nodeList
        nextNodes == dived.children
    IN  [section |-> [typevalue |-> h[startingNode]._type,
                      points |-> [i \in 1..Len(nodeList) |->
                                     [position |-> h[nodeList[i]]._position,
                                      radius |-> h[nodeList[i]]._radius]],
                      id |-> id,
                      children |-> << >>,
                      parent |-> parentSectionId],
         sections |-> secs,
         stack |-> stk \o [i \in 1..Len(nextNodes) |->
                              [node |-> nextNodes[i], parentSectionId |-> Some(id)]]]

\* buildRawSection(startingNode, parentSectionId): the section it returns,
\* the sections and the stack after it
buildRawSection(h, secs, stk, id, startingNode, parentSectionId) ==
    LET dived == dive(h, startingNode, InitialNodeList(h, startingNode))
        nodeList == dived.nodeList
        nextNodes == dived.children
        points == [i \in 1..Len(nodeList) |->
                      [position |-> h[nodeList[i]]._position,
                       radius |-> h[nodeList[i]]._radius]]
        section == [typevalue |-> h[startingNode]._type,
                    points |-> points,
                    id |-> id,
                    children |-> << >>,
                    parent |-> parentSectionId]
    IN  [section |-> section,
         sections |-> IF parentSectionId # null
                      THEN [secs EXCEPT ![Val(parentSectionId) + 1].children = Append(@, id)]
                      ELSE secs,
         stack |-> stk \o [i \in 1..Len(nextNodes) |->
                              [node |-> nextNodes[i], parentSectionId |-> Some(id)]]]

\* currentSectionId += 1 left out
NextSectionId_Same(id) == id

\* currentSectionId += 1
NextSectionId(id) == id + 1

\* one turn of the loop that takes the first element of the stack, as
\* stack.shift() does
PopOnce_Shift(h, secs, stk, id) ==
    LET stackElem == stk[1]
        built == buildRawSection(h, secs, SubSeq(stk, 2, Len(stk)), id,
                                 stackElem.node, stackElem.parentSectionId)
        pushed == Append(built.sections, built.section)
    IN  [sections |-> [pushed EXCEPT ![built.section.id + 1] = built.section],
         stack |-> built.stack,
         currentSectionId |-> NextSectionId(id)]

\* one turn of the loop of _buildSections on a stack that is not empty:
\* stack.pop(), buildRawSection, sections.push(section),
\* sections[section.id] = section; the sections, the stack and the counter
\* after it
PopOnce(h, secs, stk, id) ==
    LET stackElem == stk[Len(stk)]
        built == buildRawSection(h, secs, SubSeq(stk, 1, Len(stk) - 1), id,
                                 stackElem.node, stackElem.parentSectionId)
        pushed == Append(built.sections, built.section)
    IN  [sections |-> [pushed EXCEPT ![built.section.id + 1] = built.section],
         stack |-> built.stack,
         currentSectionId |-> NextSectionId(id)]

\* one turn of the loop of _buildSections, run at the place at
PopStackAt(at) ==
    /\ pc = at
    /\ Len(stack) > 0
    /\ LET popped == PopOnce(heap, sections, stack, currentSectionId)
       IN  /\ sections' = popped.sections
           /\ stack' = popped.stack
           /\ currentSectionId' = popped.currentSectionId
    /\ UNCHANGED << pc, swcStr, rawPoints, collVars, parserVars, aType2Node, sectionVars >>

\* one turn of the loop, in the constructor of the collection
PopStack == PopStackAt("popping")

\* new morphologycorejs.Morphology() built from a raw morphology: an object
\* of the library, known by what it was built from
Morphology(raw) == [buildFromRawMorphology |-> raw]

\* the end of _buildSections, then _buildMorphologyObjects: the constructor
\* of the collection returns
BuildMorphologyObjects ==
    /\ pc = "popping"
    /\ Len(stack) = 0
    /\ LET rawSections == IF Len(sections) > 0 THEN Some(sections) ELSE _rawSections
           raw == [soma |-> _rawSoma, sections |-> rawSections]
       IN  /\ _rawSections' = rawSections
           /\ IF rawSections = null /\ _rawSoma = null
              THEN UNCHANGED << collRawMorphology, collMorphology >>
              ELSE /\ collRawMorphology' = Some(raw)
                   /\ collMorphology' = Some(Morphology(raw))
    /\ pc' = "constructed"
    /\ UNCHANGED << swcStr, rawPoints, heap, _nodes, somaNodes, _rawSoma, buildVars,
                    parserVars, aType2Node, sectionVars >>

\* parse after the constructor: the two fields are set, then type2Nodes[0]
\* is taken (undefined when no node is of type 2)
ParseSetResult ==
    /\ pc = "constructed"
    /\ _morphology' = collMorphology
    /\ _rawMorphology' = collRawMorphology
    /\ LET values == ObjectValues(heap, _nodes)
           type2Nodes ==
               Pick(values, {i \in 1..Len(values) : heap[values[i]]._type = AXON}, 1)
       IN  aType2Node' = IF Len(type2Nodes) > 0 THEN Some(type2Nodes[1]) ELSE null
    /\ pc' = "climb"
    /\ UNCHANGED << swcStr, rawPoints, collVars, buildVars, sectionVars >>

\* while (aType2Node._parent): one turn
ClimbStep ==
    /\ pc = "climb"
    /\ aType2Node # null
    /\ heap[Val(aType2Node)]._parent # null
    /\ aType2Node' = heap[Val(aType2Node)]._parent
    /\ UNCHANGED << pc, swcStr, rawPoints, collVars, buildVars, parserVars, sectionVars >>

\* while (aType2Node._parent): the loop ends and parse returns
ClimbEnd ==
    /\ pc = "climb"
    /\ aType2Node # null
    /\ heap[Val(aType2Node)]._parent = null
    /\ pc' = "done"
    /\ UNCHANGED << swcStr, rawPoints, collVars, buildVars, parserVars, aType2Node, sectionVars >>

\* while (aType2Node._parent): aType2Node is undefined, a TypeError
ClimbThrows ==
    /\ pc = "climb"
    /\ aType2Node = null
    /\ pc' = "climbThrew"
    /\ UNCHANGED << swcStr, rawPoints, collVars, buildVars, parserVars, aType2Node, sectionVars >>

Next ==
    \/ (pc = "idle" /\ \E n \in 0..MaxLines :
                          \E f \in [1..n -> LineChoices] : Parse(TextOf(f)))
    \/ InitCollection
    \/ InitCollectionThrows
    \/ BuildSectionsStart
    \/ PopStack
    \/ BuildMorphologyObjects
    \/ ParseSetResult
    \/ ClimbStep
    \/ ClimbEnd
    \/ ClimbThrows

Spec == Init /\ [][Next]_vars

\* ------------------------------------------------- the texts that are trees
\* Texts of TreeSize data lines.  Line i declares the id i at the position
\* (0, 0, i - 1), a type of Types, the radius "1.0" when it is of the soma
\* type and "0.5" when it is not, and as parent -1 or the id of a line before
\* it: every such text is a forest, listed parents first.
TreeSize == 4
TreeLine(i, t, p) ==
    [kind |-> "data", id |-> Tok(i), type |-> Tok(t), x |-> Tok(0), y |-> Tok(0),
     z |-> Tok(i - 1), radius |-> IF t = SOMA THEN Dec(1, 0) ELSE Dec(0, 5),
     parentId |-> Tok(p)]
TreeText(types, parents) == [i \in 1..TreeSize |-> TreeLine(i, types[i], parents[i])]
\* the text of the example: a soma, an axon node on it, two axon nodes on
\* that node
ExampleText == TreeText(<< SOMA, AXON, AXON, AXON >>, << NoParentId, 1, 2, 2 >>)

\* parse(swcStr) called with a text that is a forest
ParseTree ==
    /\ pc = "idle"
    /\ \E types \in [1..TreeSize -> Types] :
          \E parents \in [1..TreeSize -> {NoParentId} \cup 1..TreeSize] :
              /\ \A i \in 1..TreeSize : parents[i] < i
              /\ Parse(TreeText(types, parents))

\* _buildSections() called once more on the collection that parse built, up
\* to the loop that pops the stack
RebuildSectionsStart == StartSections({"done", "climbThrew"}, "rebuilding")
\* one turn of the loop of that second call
RebuildPopStack == PopStackAt("rebuilding")
\* the end of that second call
RebuildSectionsEnd ==
    /\ pc = "rebuilding"
    /\ Len(stack) = 0
    /\ _rawSections' = IF Len(sections) > 0 THEN Some(sections) ELSE _rawSections
    /\ pc' = "rebuilt"
    /\ UNCHANGED << swcStr, rawPoints, heap, _nodes, somaNodes, _rawSoma,
                    collRawMorphology, collMorphology, buildVars, parserVars,
                    aType2Node, sectionVars >>

\* ------------------------------------------------ several calls of parse
\* the texts of the calls have CallLines lines at most
CallLines == 1
\* the call of parse ended: it returned or it threw
CallEnded == pc \in {"done", "collectionThrew", "climbThrew"}
\* parse(swcStr) called on a parser that runs no call: a new one, or one
\* whose call before ended
ParseAgain ==
    /\ pc = "idle" \/ CallEnded
    /\ \E n \in 0..CallLines : \E f \in [1..n -> LineChoices] : Parse(TextOf(f))

NextCalls ==
    \/ ParseAgain
    \/ InitCollection
    \/ InitCollectionThrows
    \/ BuildSectionsStart
    \/ PopStack
    \/ BuildMorphologyObjects
    \/ ParseSetResult
    \/ ClimbStep
    \/ ClimbEnd
    \/ ClimbThrows

SpecCalls == Init /\ [][NextCalls]_vars

\* ------------------------------------------- the order of the records
\* Texts of OrderLines data lines at most, all of the axon type and of radius
\* 1, whose ids and parent ids are drawn from Ids and from the OddKeys
\* negative integers from -2 down: as keys of the mapping these are no array
\* indices.
OrderLines == 3
OddKeys == 2
OrderIds == Ids \cup {0 - k : k \in 2..(OddKeys + 1)}
OrderChoices == [kind : {"data"}, id : {Tok(i) : i \in OrderIds}, type : {Tok(AXON)},
                 radius : {Tok(1)},
                 parentId : {Tok(q) : q \in {NoParentId} \cup OrderIds}]
\* parse(swcStr) called with such a text
ParseOrder ==
    /\ pc = "idle"
    /\ \E n \in 0..OrderLines : \E f \in [1..n -> OrderChoices] : Parse(TextOf(f))

\* the call is followed up to the end of _initCollection
NextOrder ==
    \/ ParseOrder
    \/ InitCollection
    \/ InitCollectionThrows

SpecOrder == Init /\ [][NextOrder]_vars

\* ------------------------------------------------ the ways to write tokens
\* Texts of TokenLines data lines at most whose tokens are written as
\* integers, with a decimal digit, or are words.
TokenLines == 2
TokenChoices == [kind : {"data"},
                 id : {Tok(1), Dec(1, 0), Dec(1, 4), Dec(1, 6), Word},
                 type : {Tok(AXON), Dec(AXON, 0), Dec(0, 6)},
                 radius : {Tok(1), Dec(2, 5), Word},
                 parentId : {Tok(NoParentId), Dec(NoParentId, 0), Tok(1), Dec(1, 0)}]
\* parse(swcStr) called with such a text
ParseTokens ==
    /\ pc = "idle"
    /\ \E n \in 0..TokenLines : \E f \in [1..n -> TokenChoices] : Parse(TextOf(f))

NextTokens ==
    \/ ParseTokens
    \/ InitCollection
    \/ InitCollectionThrows
    \/ BuildSectionsStart
    \/ PopStack
    \/ BuildMorphologyObjects
    \/ ParseSetResult
    \/ ClimbStep
    \/ ClimbEnd
    \/ ClimbThrows

SpecTokens == Init /\ [][NextTokens]_vars

\* --------------------------------------------- one call that runs on
\* the text of the call has LoopLines lines at most
LoopLines == 2
NextLoop ==
    \/ (pc = "idle" /\ \E n \in 0..LoopLines :
                          \E f \in [1..n -> LineChoices] : Parse(TextOf(f)))
    \/ InitCollection
    \/ InitCollectionThrows
    \/ BuildSectionsStart
    \/ PopStack
    \/ BuildMorphologyObjects
    \/ ParseSetResult
    \/ ClimbStep
    \/ ClimbEnd
    \/ ClimbThrows

\* parse is called and, being synchronous code on one thread, runs on as
\* long as it has a step to take
FairSpecLoop == Init /\ [][NextLoop]_vars /\ WF_vars(NextLoop)

\* a forest has no dangling parent and its text no hole: _initCollection
\* does not throw
NextTree ==
    \/ ParseTree
    \/ InitCollection
    \/ BuildSectionsStart
    \/ PopStack
    \/ BuildMorphologyObjects
    \/ ParseSetResult
    \/ ClimbStep
    \/ ClimbEnd
    \/ ClimbThrows
    \/ RebuildSectionsStart
    \/ RebuildPopStack
    \/ RebuildSectionsEnd

SpecTree == Init /\ [][NextTree]_vars

TypeOK == pc \in {"idle", "initCollection", "buildSections", "popping", "constructed",
                  "climb", "done", "collectionThrew", "climbThrew", "rebuilding",
                  "rebuilt"}

\* ------------------------------------------------------- what callers see
getRawMorphology == _rawMorphology
getMorphology == _morphology
\* the call of parse returned
ParseReturned == pc = "done"
\* the call of parse threw
ParseThrew == pc \in {"collectionThrew", "climbThrew"}
\* _buildSections and the constructor of the collection are over
Reconstructed == pc \in {"constructed", "climb", "done", "climbThrew"}

\* the section sequence of the collection, empty when there is none
EmittedSections == IF _rawSections = null THEN << >> ELSE Val(_rawSections)
\* the section sequence of the result of parse, empty when there is none
ResultSections ==
    IF getRawMorphology = null THEN << >>
    ELSE IF Val(getRawMorphology).sections = null THEN << >>
    ELSE Val(Val(getRawMorphology).sections)

\* The x token of a line is its line number: the object a point was taken
\* from is the one built from the line of that number.  RemoveComments and
\* RemoveEmptyLines shift the lines, so the object is looked up by position.
NodeOfPoint(pt) == CHOOSE n \in DOMAIN heap : heap[n]._position = pt.position
\* the node a section was started at: its first point is the parent of that
\* node when the section has a parent section
StartPoint(sec) == IF sec.parent = null THEN sec.points[1] ELSE sec.points[2]

\* -------------------------------------------------------------------------
\* C1 (overlap invariant): in the result of parse, the first point of every
\* section whose parent is not null has the position and the radius of the
\* last point of the section its parent field names.
C1_Overlap ==
    \A i \in 1..Len(ResultSections) :
        LET sec == ResultSections[i]
        IN  sec.parent # null =>
              LET par == ResultSections[Val(sec.parent) + 1]
              IN  /\ sec.points[1].position = par.points[Len(par.points)].position
                  /\ sec.points[1].radius = par.points[Len(par.points)].radius
\* parse returned a result with a section that has a parent of several points
C1_Witness ==
    /\ ParseReturned
    /\ \E i \in 1..Len(ResultSections) :
          /\ ResultSections[i].parent # null
          /\ Len(ResultSections[Val(ResultSections[i].parent) + 1].points) > 1

\* C2 (type homogeneity): every point of an emitted section but the first
\* comes from a node of the type the section declares.
C2_TypeHomogeneity ==
    \A i \in 1..Len(sections) :
        \A k \in 2..Len(sections[i].points) :
            heap[NodeOfPoint(sections[i].points[k])]._type = sections[i].typevalue
\* a section of three points was emitted whose first point is of another type
C2_Witness ==
    \E i \in 1..Len(sections) :
        /\ Len(sections[i].points) >= 3
        /\ heap[NodeOfPoint(sections[i].points[1])]._type # sections[i].typevalue

\* C3 (branch cardinality): when the reconstruction is over, a section with
\* exactly one child section is of another type than that child.
C3_BranchCardinality ==
    Reconstructed =>
        \A i \in 1..Len(EmittedSections) :
            LET sec == EmittedSections[i]
            IN  Len(sec.children) = 1 =>
                  EmittedSections[sec.children[1] + 1].typevalue # sec.typevalue
\* the reconstruction ended with a section of exactly one child section
C3_Witness ==
    /\ Reconstructed
    /\ \E i \in 1..Len(EmittedSections) : Len(EmittedSections[i].children) = 1

\* ------------------------------------------------------ the point records
\* the indices of rawPoints that hold a point record
Records == {i \in 1..Len(rawPoints) : rawPoints[i] # null}
RecordIds == {Val(rawPoints[i]).id : i \in Records}
\* the record declares a parent id that is the id of no record
Dangling(i) ==
    /\ Val(rawPoints[i]).parentId # NoParentId
    /\ Val(rawPoints[i]).parentId \notin RecordIds
\* no later record has the id of the record
LastOfItsId(i) == \A j \in Records : j > i => Val(rawPoints[j]).id # Val(rawPoints[i]).id
\* parse has extracted the points of its argument
Extracted == pc # "idle"
\* _initCollection has returned
Collected == pc \in {"buildSections", "popping", "constructed", "climb", "done",
                     "climbThrew"}
\* the constructor of the collection has returned
Constructed == pc \in {"climb", "done", "climbThrew"}

\* C4 (dangling reference failure), as amended: when a record that no later
\* record of the same id replaces declares a parent id other than -1 that is
\* the id of no record, parse does not get past _initCollection, and
\* getRawMorphology() and getMorphology() return null.
C4_DanglingFails ==
    (Extracted /\ \E i \in Records : LastOfItsId(i) /\ Dangling(i)) =>
        /\ pc \in {"initCollection", "collectionThrew"}
        /\ getRawMorphology = null
        /\ getMorphology = null
\* parse threw on a text without hole whose last record of some id has a
\* dangling parent id
C4_Witness ==
    /\ pc = "collectionThrew"
    /\ ~HasHole(rawPoints)
    /\ \E i \in Records : LastOfItsId(i) /\ Dangling(i)
\* C4 as stated: whenever some record declares a dangling parent id
C4_Original ==
    (Extracted /\ \E i \in Records : Dangling(i)) =>
        /\ pc \in {"initCollection", "collectionThrew"}
        /\ getRawMorphology = null
        /\ getMorphology = null

\* C5 (a dangling parent is the only fatal condition): parse does not throw
\* on a text in which every declared parent id other than -1 is the id of
\* some record.
C5_OnlyDanglingIsFatal ==
    (Extracted /\ \A i \in Records : ~Dangling(i)) => ~ParseThrew

\* C6 (compact skip of short lines): the extracted sequence has no hole, is
\* as long as the number of lines of at least MinTokens tokens and holds
\* their records in the order of the lines.
C6_CompactSkip ==
    Extracted =>
        LET kept == Pick(swcStr, {i \in 1..Len(swcStr) :
                                     RowLength(swcStr[i]) >= MinTokens}, 1)
        IN  rawPoints = [k \in 1..Len(kept) |-> Some(PointOf(kept[k]))]

\* C7 (an empty result is not a failure): when the collection has neither a
\* soma nor a section, parse does not throw and getRawMorphology() and
\* getMorphology() return null.
C7_EmptyIsNotFailure ==
    (Constructed /\ _rawSoma = null /\ _rawSections = null) =>
        /\ ~ParseThrew
        /\ getRawMorphology = null
        /\ getMorphology = null

\* C8 (one part present): when the collection has a soma and no section, or
\* sections and no soma, parse does not throw and getRawMorphology() returns
\* a structure with the part that is present and null for the other.
C8_OnePartPresent ==
    (Constructed /\ ((_rawSoma = null) # (_rawSections = null))) =>
        /\ ~ParseThrew
        /\ getRawMorphology # null
        /\ Val(getRawMorphology).soma = _rawSoma
        /\ Val(getRawMorphology).sections = _rawSections

\* the indices of the soma-typed records, ascending
SomaRecords == Ascending({i \in Records : Val(rawPoints[i]).type = SOMA})

\* C9 (soma aggregation): with a soma-typed record, the soma has id 0, the
\* largest radius of the soma-typed records and one point per soma-typed
\* record, in their order, that holds a position and nothing else; without
\* one, the soma is null.  The result of parse holds that soma.
C9_SomaAggregation ==
    /\ Collected =>
         IF Len(SomaRecords) = 0 THEN _rawSoma = null
         ELSE /\ _rawSoma # null
              /\ Val(_rawSoma).id = 0
              /\ \E i \in 1..Len(SomaRecords) :
                    Val(_rawSoma).radius = Val(rawPoints[SomaRecords[i]]).radius
              /\ \A i \in 1..Len(SomaRecords) :
                    Val(_rawSoma).radius >= Val(rawPoints[SomaRecords[i]]).radius
              /\ Len(Val(_rawSoma).points) = Len(SomaRecords)
              /\ \A i \in 1..Len(SomaRecords) :
                    /\ DOMAIN Val(_rawSoma).points[i] = {"position"}
                    /\ Val(_rawSoma).points[i].position =
                          << Val(rawPoints[SomaRecords[i]]).x,
                             Val(rawPoints[SomaRecords[i]]).y,
                             Val(rawPoints[SomaRecords[i]]).z >>
    /\ getRawMorphology # null => Val(getRawMorphology).soma = _rawSoma
\* a soma of three points was built, the first of a smaller radius than
\* the second, and is in the result of parse
C9_Witness ==
    /\ Constructed
    /\ getRawMorphology # null
    /\ Len(SomaRecords) = 3
    /\ Val(rawPoints[SomaRecords[1]]).radius < Val(rawPoints[SomaRecords[2]]).radius

\* C10 (soma nodes are no section roots): no emitted section was started at
\* a soma-typed node.
C10_NoSomaSectionRoot ==
    \A i \in 1..Len(sections) : ~isSoma(heap[NodeOfPoint(StartPoint(sections[i]))])

\* the point of a section built from line i of a text that is a tree
TreePoint(i, t) == [position |-> << 0, 0, 10 * (i - 1) >>,
                    radius |-> IF t = SOMA THEN 10 ELSE 5]

\* C11 (the example of the format): when parse returns from the text of the
\* example, the soma of the result has the radius 1.0 and one point, and the
\* sections of the result are three: one of the two points of node 1 and
\* node 2, and its two children, axon sections of the two points of node 2
\* and node 3 and of node 2 and node 4.
C11_Example ==
    (ParseReturned /\ swcStr = ExampleText) =>
        /\ getRawMorphology # null
        /\ Val(getRawMorphology).soma # null
        /\ Val(Val(getRawMorphology).soma).radius = 10
        /\ Len(Val(Val(getRawMorphology).soma).points) = 1
        /\ Len(ResultSections) = 3
        /\ \E t, a, b \in 1..Len(ResultSections) :
              LET trunk == ResultSections[t]
                  left == ResultSections[a]
                  right == ResultSections[b]
              IN  /\ trunk.points = << TreePoint(1, SOMA), TreePoint(2, AXON) >>
                  /\ Len(trunk.children) = 2
                  /\ {trunk.children[1], trunk.children[2]} = {left.id, right.id}
                  /\ left.points = << TreePoint(2, AXON), TreePoint(3, AXON) >>
                  /\ right.points = << TreePoint(2, AXON), TreePoint(4, AXON) >>
                  /\ left.typevalue = AXON /\ right.typevalue = AXON
                  /\ left.children = << >> /\ right.children = << >>

\* the section sequence the call of _buildSections in the constructor left,
\* as the raw morphology of the collection keeps it
FirstBuild ==
    IF collRawMorphology = null THEN << >>
    ELSE IF Val(collRawMorphology).sections = null THEN << >>
    ELSE Val(Val(collRawMorphology).sections)

\* C12 (idempotent id assignment): a second call of _buildSections on the
\* node graph of the collection, its mapping being visited in the same
\* order, ends with the section sequence of the first call: the same ids,
\* points, types, parent fields and children lists.
C12_IdempotentIds ==
    pc = "rebuilt" => /\ sections = FirstBuild
                      /\ EmittedSections = FirstBuild
\* a second call ended on a graph of two roots, one of them with a section
\* of two child sections
C12_Witness ==
    /\ pc = "rebuilt"
    /\ Cardinality({i \in 1..Len(sections) : sections[i].parent = null}) = 2
    /\ \E i \in 1..Len(sections) : Len(sections[i].children) = 2

\* the loop of _buildSections, run to its end: the sections it leaves
RECURSIVE PopAll(_, _, _, _)
PopAll(h, secs, stk, id) ==
    IF Len(stk) = 0 THEN secs
    ELSE LET popped == PopOnce(h, secs, stk, id)
         IN  PopAll(h, popped.sections, popped.stack, popped.currentSectionId)

\* What getRawMorphology() returns after parse(str) on a new parser ended:
\* null when the constructor of the collection threw, no field being set
\* then, and the raw morphology of the collection when it did not.
FreshRawMorphology(str) ==
    LET points == extractPoints(str)
    IN  IF HasHole(points) THEN null
        ELSE LET created == CreatedNodes(points)
                 nodes == NodesById(points)
             IN  IF HasDanglingParent(created, nodes) THEN null
                 ELSE LET h == LinkParents(created, nodes, ObjectValues(created, nodes), 1)
                          values == ObjectValues(h, nodes)
                          starterNodes ==
                              Pick(values, {i \in 1..Len(values) :
                                               h[values[i]]._parent = null}, 1)
                          secs == PopAll(h, << >>,
                                         [i \in 1..Len(starterNodes) |->
                                             [node |-> starterNodes[i],
                                              parentSectionId |-> null]],
                                         FirstSectionId)
                          rawSections == IF Len(secs) > 0 THEN Some(secs) ELSE null
                          rawSoma == RawSoma(created, SomaNodes(points))
                      IN  IF rawSections = null /\ rawSoma = null THEN null
                          ELSE Some([soma |-> rawSoma, sections |-> rawSections])
\* what getMorphology() returns then
FreshMorphology(str) ==
    IF FreshRawMorphology(str) = null THEN null
    ELSE Some(Morphology(Val(FreshRawMorphology(str))))

\* C13 (each parse starts from empty state): after any sequence of calls of
\* parse on one parser, once the last call ended, getRawMorphology() and
\* getMorphology() return what they return on a new parser given the text of
\* that call, and they return null when that call threw.
C13_FreshState ==
    CallEnded =>
        /\ getRawMorphology = FreshRawMorphology(swcStr)
        /\ getMorphology = FreshMorphology(swcStr)
        /\ ParseThrew => (getRawMorphology = null /\ getMorphology = null)

\* C14 (termination): every call of parse ends: it returns or it throws.
C14_Terminates == <>CallEnded

\* the object built from record i is the object n: it has the type, the
\* position, the radius and the parent id of the record
BuiltFrom(n, i) ==
    LET pt == Val(rawPoints[i])
    IN  /\ n._id = pt.id
        /\ n._type = pt.type
        /\ n._position = << pt.x, pt.y, pt.z >>
        /\ n._radius = pt.radius
        /\ n._parentId = IF pt.parentId = NoParentId THEN null ELSE Some(pt.parentId)
\* the object built from record i is in the graph: the mapping holds it, or
\* an object has it as parent or as child, or it has a parent or a child
InGraph(i) ==
    \/ \E id \in DOMAIN _nodes : _nodes[id] = i
    \/ heap[i]._parent # null
    \/ heap[i]._children # << >>
    \/ \E j \in DOMAIN heap :
          \/ heap[j]._parent = Some(i)
          \/ \E k \in 1..Len(heap[j]._children) : heap[j]._children[k] = i

\* C15 (last write wins on duplicate ids): the constructor of the collection
\* throws only on a hole or on a dangling parent id of the last record of an
\* id; when it does not, the mapping has exactly the ids of the records as
\* keys, the node of an id is built from the last record of that id, and the
\* object of an earlier record of the id is not in the mapping and has no
\* parent or child link to or from any object.
C15_LastWriteWins ==
    /\ pc = "collectionThrew" =>
          \/ HasHole(rawPoints)
          \/ \E i \in Records : LastOfItsId(i) /\ Dangling(i)
    /\ Collected =>
          /\ DOMAIN _nodes = RecordIds
          /\ \A i \in Records :
                IF LastOfItsId(i)
                THEN /\ _nodes[Val(rawPoints[i]).id] = i
                     /\ BuiltFrom(heap[i], i)
                ELSE ~InGraph(i)
\* the collection was built from three records: one that a later record of
\* its id, of another type and without parent, replaces and that names the
\* third record as its parent, the third record naming their id as its own
C15_Witness ==
    /\ Collected
    /\ \E i, j, k \in Records :
          /\ i < j
          /\ Val(rawPoints[i]).id = Val(rawPoints[j]).id
          /\ Val(rawPoints[i]).type # Val(rawPoints[j]).type
          /\ Val(rawPoints[j]).parentId = NoParentId
          /\ Val(rawPoints[i]).parentId = Val(rawPoints[k]).id
          /\ Val(rawPoints[k]).parentId = Val(rawPoints[j]).id
          /\ Val(rawPoints[k]).id # Val(rawPoints[j]).id

\* the graph of the objects of a mapping, by their ids: the id of the parent
\* of every node and the ids of its children, in the order of its child list
IdGraph(h, nodes) ==
    [id \in DOMAIN nodes |->
        [parent |-> IF h[nodes[id]]._parent = null THEN null
                    ELSE Some(h[Val(h[nodes[id]]._parent)]._id),
         children |-> [k \in 1..Len(h[nodes[id]]._children) |->
                          h[h[nodes[id]]._children[k]]._id]]]
\* the graph _initCollection builds from points it does not throw on
LinkedGraph(points) ==
    LET created == CreatedNodes(points)
        nodes == NodesById(points)
    IN  IdGraph(LinkParents(created, nodes, ObjectValues(created, nodes), 1), nodes)
\* the graph without the order of the child lists
Unordered(graph) ==
    [id \in DOMAIN graph |->
        [parent |-> graph[id].parent,
         children |-> {graph[id].children[k] : k \in 1..Len(graph[id].children)}]]
\* the records in another order
Permuted(points, perm) == [i \in 1..Len(points) |-> points[perm[i]]]
\* no two records have the same id
UniqueIds == \A i, j \in Records : Val(rawPoints[i]).id = Val(rawPoints[j]).id => i = j

PlainToken(tok) == IF tok.frac = Some(0) THEN [tok EXCEPT !.frac = null] ELSE tok
\* the line with the tokens of its id, its type and its parent id so written
PlainLine(line) == [line EXCEPT !.id = PlainToken(@), !.type = PlainToken(@),
                                !.parentId = PlainToken(@)]

\* C17 (integer fields written as floats): the record of a line is the
\* record of the line with "1.0", "2.0", "-1.0" written "1", "2", "-1"; the
\* id "1.4" is 1, the id "1.6" is 2 and the type "0.6" is 1; the radius "2.5"
\* is 2.5; and the node of a line whose parent id is written "-1.0" has no
\* parent id and no parent.
C17_RoundedIntegers ==
    /\ Extracted =>
          \A i \in 1..Len(swcStr) :
              /\ rawPoints[i] = Some(PointOf(PlainLine(swcStr[i])))
              /\ swcStr[i].id = Dec(1, 4) => Val(rawPoints[i]).id = 1
              /\ swcStr[i].id = Dec(1, 6) => Val(rawPoints[i]).id = 2
              /\ swcStr[i].type = Dec(0, 6) => Val(rawPoints[i]).type = SOMA
              /\ swcStr[i].radius = Dec(2, 5) => Val(rawPoints[i]).radius = 25
              /\ Val(rawPoints[i]).x = 10 * i
    /\ Collected =>
          \A i \in 1..Len(swcStr) :
              swcStr[i].parentId = Dec(NoParentId, 0) =>
                  (heap[i]._parentId = null /\ heap[i]._parent = null)
\* the collection was built from a line of the id "1.0", the radius "2.5"
\* and the parent id "-1.0" and a line of the id "1.6" and the parent id "1.0"
C17_Witness ==
    /\ Collected
    /\ Len(swcStr) = 2
    /\ swcStr[1].id = Dec(1, 0)
    /\ swcStr[1].radius = Dec(2, 5)
    /\ swcStr[1].parentId = Dec(NoParentId, 0)
    /\ swcStr[2].id = Dec(1, 6)
    /\ swcStr[2].parentId = Dec(1, 0)
    /\ heap[2]._parent = Some(1)

\* the text without its blank lines and its comment lines
WithoutBlankAndCommentLines(str) ==
    Pick(str, {i \in 1..Len(str) : str[i].kind \notin {"blank", "comment"}}, 1)

\* C18 (comment and blank lines are discarded): the sequence extracted from
\* a text is the sequence extracted from the text without its blank lines
\* and its comment lines.
C18_BlankAndCommentDiscarded ==
    Extracted => rawPoints = extractPoints(WithoutBlankAndCommentLines(swcStr))

\* a field of the record is no number
HasNaN(pt) == \E field \in DOMAIN pt : pt[field] = NaN

\* C19 (malformed numeric tokens): no record that extractPoints hands to the
\* constructor of the collection has a field that is no number.
C19_NoMalformedRecord ==
    Extracted => \A i \in Records : ~HasNaN(Val(rawPoints[i]))

\* C20 (sequential section ids): at every moment the k-th section built has
\* the id k - 1 and is at index k - 1 of the section sequence, the counter is
\* the number of sections built, the sequence the collection keeps is the
\* one built, and a turn of the loop never lowers the counter.
C20_SequentialIds ==
    /\ [](/\ \A k \in 1..Len(sections) : sections[k].id = k - 1
          /\ currentSectionId = Len(sections)
          /\ Reconstructed => EmittedSections = sections)
    /\ [][pc' = pc => currentSectionId' >= currentSectionId]_vars
\* the reconstruction ended with four sections, the last with a parent
C20_Witness ==
    /\ Reconstructed
    /\ Len(EmittedSections) = 4
    /\ EmittedSections[4].parent # null

\* ------------------------------------------------- the emitted sections
\* the node a section ends at: the node dive stopped at
FrontierNode(sec) == NodeOfPoint(sec.points[Len(sec.points)])
\* the node a section was started at
StartNode(sec) == NodeOfPoint(StartPoint(sec))
\* the section of id x is the section of id r or below it
RECURSIVE InSubtree(_, _, _)
InSubtree(secs, x, r) ==
    IF x = r THEN TRUE
    ELSE IF secs[x + 1].parent = null THEN FALSE
    ELSE InSubtree(secs, Val(secs[x + 1].parent), r)
\* the ids of the sections without parent, ascending
RootSections(secs) == Ascending({secs[k].id : k \in {j \in 1..Len(secs) : secs[j].parent = null}})
\* the nodes without parent, in the order _buildSections pushes them
SeededRoots ==
    LET values == ObjectValues(heap, _nodes)
    IN  Pick(values, {i \in 1..Len(values) : heap[values[i]]._parent = null}, 1)
\* the sections of the ids ids[1], ids[2], ... start at the nodes of the
\* list nodes taken from its end, and every section in the subtree of an
\* earlier one has a smaller id than every section in the subtree of a
\* later one
LastPushedFirst(secs, ids, nodes) ==
    /\ Len(ids) = Len(nodes)
    /\ \A j \in 1..Len(ids) : StartNode(secs[ids[j] + 1]) = nodes[Len(nodes) + 1 - j]
    /\ \A i, j \in 1..Len(ids) :
          i < j => \A x, y \in 0..(Len(secs) - 1) :
                      (InSubtree(secs, x, ids[i]) /\ InSubtree(secs, y, ids[j])) => x < y

\* C21 (depth first, last pushed first): when the reconstruction is over, the
\* child sections of a section start at the children of its frontier node
\* taken from the last to the first, the first of them has the id after its
\* parent's, and the subtree of a child emitted earlier has smaller ids than
\* the subtree of a child emitted later; the sections without parent start
\* at the seeded roots taken from the last to the first, the first of them
\* is section 0, and their subtrees are emitted one after the other.
C21_DepthFirst ==
    Reconstructed =>
        /\ \A k \in 1..Len(EmittedSections) :
              LET sec == EmittedSections[k]
              IN  /\ LastPushedFirst(EmittedSections, sec.children,
                                     heap[FrontierNode(sec)]._children)
                  /\ Len(sec.children) > 0 => sec.children[1] = sec.id + 1
        /\ LastPushedFirst(EmittedSections, RootSections(EmittedSections), SeededRoots)
        /\ Len(SeededRoots) > 0 => RootSections(EmittedSections)[1] = 0
\* the reconstruction ended with a section of two child sections, the first
\* of which has a child section
C21_Witness ==
    /\ Reconstructed
    /\ \E k \in 1..Len(EmittedSections) :
          /\ Len(EmittedSections[k].children) = 2
          /\ Len(EmittedSections[EmittedSections[k].children[1] + 1].children) > 0

\* the places <<k, j>> of the own points of the sections: every point of a
\* section without parent, every point but the first of a section with one
OwnPoints(secs) ==
    {kj \in UNION {{<< k, j >> : j \in 1..Len(secs[k].points)} : k \in 1..Len(secs)} :
        secs[kj[1]].parent # null => kj[2] >= 2}
\* the places of the own points that come from the node n
OwnPointsOf(secs, n) ==
    {kj \in OwnPoints(secs) : NodeOfPoint(secs[kj[1]].points[kj[2]]) = n}

\* C22 (partition of the node graph): when the reconstruction is over, every
\* node of the mapping is the own point of exactly one section, once.
C22_Partition ==
    Reconstructed =>
        \A id \in DOMAIN _nodes :
            Cardinality(OwnPointsOf(EmittedSections, _nodes[id])) = 1

\* how many times the id occurs in the list of ids
Occurrences(ids, id) == Cardinality({k \in 1..Len(ids) : ids[k] = id})

\* C23 (section linkage is consistent): when the reconstruction is over, the
\* id of a section occurs once in the children of the section its parent
\* field names and in the children of no other section, a section has as
\* many children as its frontier node, every child id is greater than the
\* id of the section, and the parent of a section is null exactly when the
\* node it was started at has no parent.
C23_Linkage ==
    Reconstructed =>
        \A k \in 1..Len(EmittedSections) :
            LET sec == EmittedSections[k]
            IN  /\ \A q \in 1..Len(EmittedSections) :
                      Occurrences(EmittedSections[q].children, sec.id) =
                          IF sec.parent = Some(EmittedSections[q].id) THEN 1 ELSE 0
                /\ sec.parent # null => Val(sec.parent) \in 0..(Len(EmittedSections) - 1)
                /\ Len(sec.children) = Len(heap[FrontierNode(sec)]._children)
                /\ \A c \in 1..Len(sec.children) : sec.children[c] > sec.id
                /\ (sec.parent = null) = (heap[StartNode(sec)]._parent = null)
\* the reconstruction ended with two sections without parent, one of them
\* with two child sections
C23_Witness ==
    /\ Reconstructed
    /\ Len(RootSections(EmittedSections)) = 2
    /\ \E k \in 1..Len(EmittedSections) : Len(EmittedSections[k].children) = 2

\* the objects that have the object c in their child list
ParentsOf(c) ==
    {p \in DOMAIN heap : \E k \in 1..Len(heap[p]._children) : heap[p]._children[k] = c}

\* C24 (node graph invariant): once _initCollection has returned, every object
\* is in the child list of at most one object, no child list has two
\* entries of the same id, an object c is in the child list of p exactly when
\* the parent of c is p, and adding to a child list an object whose id is
\* that of an entry leaves the list as it is.
C24_NodeGraph ==
    Collected =>
        /\ \A c \in DOMAIN heap : Cardinality(ParentsOf(c)) <= 1
        /\ \A p \in DOMAIN heap :
              \A i, j \in 1..Len(heap[p]._children) :
                  heap[heap[p]._children[i]]._id = heap[heap[p]._children[j]]._id => i = j
        /\ \A p, c \in DOMAIN heap : (p \in ParentsOf(c)) = (heap[c]._parent = Some(p))
        /\ \A p, c \in DOMAIN heap :
              (\E k \in 1..Len(heap[p]._children) :
                  heap[heap[p]._children[k]]._id = heap[c]._id)
                  => _addChild(heap, p, c) = heap

\* C25 (emitted sections change by appended children only): a step either
\* leaves the section sequence as it is, or starts a call of _buildSections
\* with a new, empty sequence, or adds one section at the end of the
\* sequence; then the section that the parent field of the new one names has
\* the new id appended to its children and is otherwise unchanged, and every
\* other section is unchanged.
C25_AppendOnly ==
    [][\/ sections' = sections
       \/ pc' # pc /\ pc' \in {"popping", "rebuilding"} /\ sections' = << >>
       \/ /\ Len(sections') = Len(sections) + 1
          /\ LET new == sections'[Len(sections')]
             IN  \A k \in 1..Len(sections) :
                    sections'[k] =
                        IF new.parent = Some(sections[k].id)
                        THEN [sections[k] EXCEPT !.children = Append(@, new.id)]
                        ELSE sections[k]]_vars
\* in the loop, three sections are built and one of them has got its second
\* child
C25_Witness ==
    /\ pc = "popping"
    /\ Len(sections) >= 3
    /\ \E k \in 1..Len(sections) : Len(sections[k].children) = 2

\* the dive buildRawSection makes to build the section sec: the node list
\* after it and the array it returns
DiveOf(sec) == dive(heap, StartNode(sec), InitialNodeList(heap, StartNode(sec)))

C27_WorkStack ==
    pc \in {"popping", "rebuilding"} =>
        \A k \in 1..Len(stack) :
            stack[k].parentSectionId # null =>
                LET parentSectionId == Val(stack[k].parentSectionId)
                IN  /\ parentSectionId < currentSectionId
                    /\ parentSectionId + 1 \in DOMAIN sections
                    /\ sections[parentSectionId + 1].id = parentSectionId
                    /\ \E c \in DOMAIN heap[FrontierNode(sections[parentSectionId + 1])]._children :
                          heap[FrontierNode(sections[parentSectionId + 1])]._children[c]
                              = stack[k].node
\* the loop is at a turn where the stack holds two entries of different
\* parent sections
C27_Witness ==
    /\ pc = "popping"
    /\ \E j, k \in 1..Len(stack) :
          /\ stack[j].parentSectionId # null
          /\ stack[k].parentSectionId # null
          /\ stack[j].parentSectionId # stack[k].parentSectionId

\* the soma-typed objects of the mapping this._nodes
MappedSomaNodes == {n \in {_nodes[id] : id \in DOMAIN _nodes} : isSoma(heap[n])}

\* C28 (the soma comes from the final mapping): when _initCollection has
\* returned, the soma is null when the mapping has no soma-typed node;
\* otherwise it has one point per soma-typed node of the mapping, every
\* point is the position of such a node, and its radius is the largest
\* radius of those nodes.
C28_SomaOfMapping ==
    Collected =>
        IF MappedSomaNodes = {} THEN _rawSoma = null
        ELSE /\ _rawSoma # null
             /\ Len(Val(_rawSoma).points) = Cardinality(MappedSomaNodes)
             /\ \A i \in 1..Len(Val(_rawSoma).points) :
                   \E n \in MappedSomaNodes :
                       Val(_rawSoma).points[i].position = heap[n]._position
             /\ Val(_rawSoma).radius = MathMax({heap[n]._radius : n \in MappedSomaNodes})

\* ----------------------------------------------------------------- Section
MaxSectionId == 2
MaxChildren == 3

\* new Section(id): the fields the constructor sets
Section(id) == [_id |-> id, _nodes |-> << >>, _children |-> << >>]

\* this.addNode(n): this._node.push(n) reads the field _node of the object,
\* and reading push of undefined throws a TypeError; the object after the
\* call and whether it threw
addNode(this, n) ==
    IF "_node" \in DOMAIN this
    THEN [this |-> [this EXCEPT !._node = Append(@, n)], threw |-> FALSE]
    ELSE [this |-> this, threw |-> TRUE]

\* this.addChild(s): the object after the call
addChild(this, s) == [this EXCEPT !._children = Append(@, s)]

\* what the calls on a Section leave alone
swcVars == << pc, swcStr, rawPoints, collVars, buildVars, parserVars, aType2Node >>

\* new Section(id)
NewSection ==
    /\ \E id \in 0..MaxSectionId :
          /\ aSection' = Some(Section(id))
          /\ sectionCall' = [method |-> "constructor", arg |-> Some(id), threw |-> FALSE]
    /\ UNCHANGED swcVars

\* aSection.addNode(n), n a TreeNode
AddNode ==
    /\ aSection # null
    /\ \E id \in Ids :
          LET n == TreeNode(id, AXON, 0, 0, 0, 10)
              called == addNode(Val(aSection), n)
          IN  /\ aSection' = Some(called.this)
              /\ sectionCall' = [method |-> "addNode", arg |-> Some(n),
                                 threw |-> called.threw]
    /\ UNCHANGED swcVars

\* aSection.addChild(s), s a Section
AddChild ==
    /\ aSection # null
    /\ Len(Val(aSection)._children) < MaxChildren
    /\ \E id \in 0..MaxSectionId :
          LET s == Section(id)
          IN  /\ aSection' = Some(addChild(Val(aSection), s))
              /\ sectionCall' = [method |-> "addChild", arg |-> Some(s), threw |-> FALSE]
    /\ UNCHANGED swcVars

NextSection ==
    \/ NewSection
    \/ AddNode
    \/ AddChild

SpecSection == Init /\ [][NextSection]_vars

\* C29 (Section.addNode and Section.addChild): a call of addNode(n) does
\* not throw and leaves the section with n added at the end of the node list
\* the constructor created, nothing else changed; a call of addChild(s) does
\* not throw and leaves the section with s added at the end of its children,
\* nothing else changed.
C29_SectionAppends ==
    [][/\ sectionCall'.method = "addNode" =>
             /\ ~sectionCall'.threw
             /\ aSection' = Some([Val(aSection) EXCEPT
                                     !._nodes = Append(@, Val(sectionCall'.arg))])
       /\ sectionCall'.method = "addChild" =>
             /\ ~sectionCall'.threw
             /\ aSection' = Some([Val(aSection) EXCEPT
                                     !._children = Append(@, Val(sectionCall'.arg))])]_vars
====
